---- MODULE Spec2Model ----
(***************************************************************************)
(* A model of DrupalJsonApiEntity (src/libs/plugin-entity.js): the         *)
(* transformer, the field map, the value resolver, the relationship        *)
(* extractor and the traversal coordinator, together with the api          *)
(* collaborator the entity calls (getEntity, getRelationship,              *)
(* hasBeenTraversed, endpoint), which lives outside src/ and is modelled   *)
(* from its interface description.                                         *)
(***************************************************************************)
EXTENDS Integers, Sequences, FiniteSets, TLC

(***************************************************************************)
(* JavaScript strings are sequences of tokens; a token is a run of         *)
(* characters that no regular expression or split of the source cuts in    *)
(* two, so that a test on the characters is a test on the tokens.          *)
(* "field_title" is <<"field_", "title">>, "drupal_internal__nid" is       *)
(* <<"drupal_internal_", "_", "n", "id">>, "node--article" is              *)
(* <<"node", "--", "article">>.                                            *)
(***************************************************************************)
Letter == {"n", "t", "p"}

\* Characters in a token.  A length is only read before the separator of a
\* type (indexOf), where every token other than a Letter has two or more.
TokLen(tok) ==
  CASE tok \in Letter \cup {"_"} -> 1
    [] tok \in {"--", "id"} -> 2
    [] OTHER -> 4

RECURSIVE StrLen(_)
StrLen(s) == IF s = <<>> THEN 0 ELSE TokLen(Head(s)) + StrLen(Tail(s))

(***************************************************************************)
(* JSON values, tagged.  An object keeps its keys in insertion order, as   *)
(* Object.keys, Object.values and Array.prototype.find see them.           *)
(***************************************************************************)
Undef == [t |-> "undef"]
Null == [t |-> "null"]
N(n) == [t |-> "num", n |-> n]
S(s) == [t |-> "str", s |-> s]
A(a) == [t |-> "arr", a |-> a]
O(kv) == [t |-> "obj", kv |-> kv]
EmptyObj == O(<<>>)

TypeError == [t |-> "throw", err |-> "TypeError"]
RangeError == [t |-> "throw", err |-> "RangeError"]
IsThrow(v) == v.t = "throw"

IsObj(v) == v.t = "obj"
IsArr(v) == v.t = "arr"
IsNullish(v) == v.t \in {"undef", "null"}
\* typeof v === 'object' && !!v
IsObjectLike(v) == v.t \in {"obj", "arr", "entity"}

\* JavaScript truthiness
Truthy(v) ==
  CASE v.t \in {"undef", "null"} -> FALSE
    [] v.t = "num" -> v.n # 0
    [] v.t = "str" -> v.s # <<>>
    [] OTHER -> TRUE

KeyIndex(o, k) ==
  LET hits == {i \in 1..Len(o.kv) : o.kv[i][1] = k}
  IN IF hits = {} THEN 0 ELSE CHOOSE i \in hits : TRUE

HasKey(v, k) == IsObj(v) /\ KeyIndex(v, k) # 0

\* v[k] for a string key k on a value that is neither null nor undefined:
\* arrays and primitives have no such own property.
Get(v, k) == IF HasKey(v, k) THEN v.kv[KeyIndex(v, k)][2] ELSE Undef

\* delete o[k]
Delete(o, k) ==
  IF IsObj(o) THEN O(SelectSeq(o.kv, LAMBDA p : p[1] # k)) ELSE o

\* Object.assign(o, { [k]: v }): an existing key keeps its place.
Assign(o, k, v) ==
  IF HasKey(o, k)
  THEN O([o.kv EXCEPT ![KeyIndex(o, k)] = <<k, v>>])
  ELSE O(Append(o.kv, <<k, v>>))

Digit == <<"0", "1", "2", "3", "4", "5", "6", "7", "8", "9">>
IndexKey(i) ==
  IF i < Len(Digit) THEN <<Digit[i + 1]>>
  ELSE <<Digit[(i \div Len(Digit)) + 1], Digit[(i % Len(Digit)) + 1]>>

\* Object.keys(v), v neither null nor undefined
ObjectKeys(v) ==
  CASE v.t = "obj" -> [i \in 1..Len(v.kv) |-> v.kv[i][1]]
    [] v.t = "arr" -> [i \in 1..Len(v.a) |-> IndexKey(i - 1)]
    [] v.t = "str" -> [i \in 1..StrLen(v.s) |-> IndexKey(i - 1)]
    [] OTHER -> <<>>

\* Object.values(v)
ObjectValues(v) ==
  CASE v.t = "obj" -> [i \in 1..Len(v.kv) |-> v.kv[i][2]]
    [] v.t = "arr" -> v.a
    [] OTHER -> <<>>

(***************************************************************************)
(* The regular expressions of the source, on token sequences.              *)
(***************************************************************************)
\* /^field_/
ReField(k) == k # <<>> /\ k[1] = "field_"
\* /^paragraphs$/
ReParagraphs(k) == k = <<"paragraphs">>
\* /^drupal_internal_[a-z]?id$/   (cleanFields)
ReInternalId1(k) ==
  \/ k = <<"drupal_internal_", "id">>
  \/ Len(k) = 3 /\ k[1] = "drupal_internal_" /\ k[2] \in Letter /\ k[3] = "id"
\* /^drupal_internal__[a-z]?id$/  (get id)
isId(k) ==
  \/ k = <<"drupal_internal_", "_", "id">>
  \/ /\ Len(k) = 4
     /\ k[1] = "drupal_internal_"
     /\ k[2] = "_"
     /\ k[3] \in Letter
     /\ k[4] = "id"
\* /^(label|title|status|path|paragraphs)$/
ReNamed(k) ==
  Len(k) = 1 /\ k[1] \in {"label", "title", "status", "path", "paragraphs"}

fieldTests(k) == ReField(k) \/ ReInternalId1(k) \/ ReNamed(k)

\* s.split('--'): the pieces between the separators
RECURSIVE SplitType(_)
SplitType(s) ==
  LET seps == {i \in 1..Len(s) : s[i] = "--"}
  IN IF seps = {} THEN <<s>>
     ELSE LET i == CHOOSE j \in seps : \A m \in seps : j <= m
          IN <<SubSeq(s, 1, i - 1)>> \o SplitType(SubSeq(s, i + 1, Len(s)))

\* s.indexOf('--'), in characters; -1 when absent
IndexOfSep(s) ==
  LET seps == {i \in 1..Len(s) : s[i] = "--"}
  IN IF seps = {} THEN -1
     ELSE StrLen(SubSeq(s, 1, (CHOOSE j \in seps : \A m \in seps : j <= m) - 1))

(***************************************************************************)
(* The transformer                                                         *)
(***************************************************************************)
\* cleanField without the delete of line 316
RECURSIVE cleanField_keepsLinks(_)
cleanField_keepsLinks(field) ==
  IF IsObj(field)
  THEN LET d == Get(field, <<"data">>)
       IN IF Truthy(d) /\ IsArr(d)
          THEN Assign(field, <<"data">>, cleanField_keepsLinks(d))
          ELSE field
  ELSE IF IsArr(field)
  THEN A([i \in 1..Len(field.a) |-> cleanField_keepsLinks(field.a[i])])
  ELSE field

RECURSIVE cleanField(_)
cleanField(field) ==
  IF IsObj(field)
  THEN LET f1 == IF Truthy(Get(field, <<"links">>))
                    /\ Truthy(Get(Get(field, <<"links">>), <<"self">>))
                 THEN Delete(field, <<"links">>)
                 ELSE field
           d == Get(f1, <<"data">>)
       IN IF Truthy(d) /\ IsArr(d)
          THEN Assign(f1, <<"data">>, cleanField(d))
          ELSE f1
  ELSE IF IsArr(field)
  THEN A([i \in 1..Len(field.a) |-> cleanField(field.a[i])])
  ELSE field

\* Object.keys(undefined) and Object.keys(null) throw.
cleanFields(fields) ==
  IF IsNullish(fields) THEN TypeError
  ELSE LET keys == SelectSeq(ObjectKeys(fields), fieldTests)
       IN O([i \in 1..Len(keys) |-> <<keys[i], cleanField(Get(fields, keys[i]))>>])

\* One step of the forEach of transform: res.data[fieldSet] is read first,
\* and throws when res.data is undefined or null.
transformFieldSet(res, fieldSet) ==
  IF IsThrow(res) THEN res
  ELSE LET data == Get(res, <<"data">>)
       IN IF IsNullish(data) THEN TypeError
          ELSE LET cleaned == cleanFields(Get(data, fieldSet))
               IN IF IsThrow(cleaned) THEN cleaned
                  ELSE IF IsObj(data)
                  THEN Assign(res, <<"data">>, Assign(data, fieldSet, cleaned))
                  ELSE res

transform(res0) ==
  LET r1 == Delete(Delete(res0, <<"jsonapi">>), <<"links">>)
      d1 == Get(r1, <<"data">>)
      r2 == IF Truthy(d1) /\ Truthy(Get(d1, <<"links">>))
            THEN Assign(r1, <<"data">>, Delete(d1, <<"links">>))
            ELSE r1
  IN transformFieldSet(transformFieldSet(r2, <<"attributes">>), <<"relationships">>)

(***************************************************************************)
(* The worlds the model runs in: the raw payload handed to the             *)
(* constructor, the options, and the resources the api collaborator can    *)
(* fetch (uuid -> raw payload).  They are fixed in the initial state.      *)
(***************************************************************************)
VARIABLES
  world,        \* which of the Worlds below the behaviour runs in
  entities,     \* api: by uuid, the entity it builds from the fetched payload
                \*      (or what the constructor threw)
  claimsOnCall, \* api: whether getEntity writes the visited set when it is
                \*      called (TRUE) or when its fetch completes (FALSE)
  ent,          \* the entity under test: unbuilt, thrown, or an instance
  copy,         \* an entity re-constituted from ent.toObject()
  builds,       \* how many times the fieldMap getter has built a Map
  last,         \* the last call on ent and what it returned or threw
  firstField,   \* per field name, what the first field(name) call returned
  traversed,    \* api: the visited set behind hasBeenTraversed
  requests,     \* api: every getEntity call, in order, with its state
  calls         \* every loadRelationships call, with its promise's state

vars == <<world, entities, claimsOnCall, ent, copy, builds, last, firstField, traversed,
          requests, calls>>

(***************************************************************************)
(* The entity                                                              *)
(***************************************************************************)
\* a relationshipTests entry, by name
relationshipTest(r, k) ==
  CASE r = "field_" -> ReField(k)
    [] r = "paragraphs" -> ReParagraphs(k)
    [] OTHER -> FALSE

DefaultOptions ==
  [cleanEntity |-> "transform", relationshipTests |-> <<"field_", "paragraphs">>]

\* config.isRelationship.  A truthy type is a string in every payload of the
\* model, so that indexOf is the string's.
isRelationship(i) ==
  /\ IsObj(i)
  /\ Truthy(Get(i, <<"type">>))
  /\ Truthy(Get(i, <<"id">>))
  /\ Get(i, <<"type">>).t = "str"
  /\ IndexOfSep(Get(i, <<"type">>).s) > 1

getData(input) ==
  LET d == Get(input, <<"data">>)
  IN IF Truthy(d) /\ Truthy(Get(d, <<"type">>)) /\ Truthy(Get(d, <<"id">>))
     THEN d
     ELSE IF Truthy(Get(input, <<"type">>)) /\ Truthy(Get(input, <<"id">>))
     THEN input
     ELSE IF Truthy(d) /\ IsArr(d)
     THEN d
     ELSE EmptyObj

cleanEntity(opts, d) == IF opts.cleanEntity = "transform" THEN transform(d) ELSE d

\* new DrupalJsonApiEntity(api, apiData, opts): the instance, or what it threw
constructor(data0, opts) ==
  LET res == cleanEntity(opts, data0)
  IN IF IsThrow(res) THEN res
     ELSE LET d == Get(res, <<"data">>)
          IN [t |-> "inst",
              config |-> opts,
              res |-> res,
              data |-> getData(res),
              attrs |-> IF Truthy(d) /\ Truthy(Get(d, <<"attributes">>))
                        THEN Get(d, <<"attributes">>)
                        ELSE EmptyObj,
              fieldMap |-> <<>>,
              id |-> Null]

IsInst(e) == e.t = "inst"

\* get id: the value returned, which is also this._id afterwards
idGetter(e) ==
  IF ~Truthy(e.id)
  THEN LET keys == ObjectKeys(e.attrs)
           hits == {i \in 1..Len(keys) : isId(keys[i])}
       IN IF hits # {}
          THEN Get(e.attrs, keys[CHOOSE i \in hits : \A j \in hits : i <= j])
          ELSE e.id
  ELSE e.id

\* get entity: this.res.data.type.split('--')[0]
entityGetter(e) ==
  LET d == Get(e.res, <<"data">>)
  IN IF IsNullish(d) \/ Get(d, <<"type">>).t # "str" THEN TypeError
     ELSE S(SplitType(Get(d, <<"type">>).s)[1])

\* get bundle: this.res.data.type.split('--')[1]
bundleGetter(e) ==
  LET d == Get(e.res, <<"data">>)
  IN IF IsNullish(d) \/ Get(d, <<"type">>).t # "str" THEN TypeError
     ELSE LET parts == SplitType(Get(d, <<"type">>).s)
          IN IF Len(parts) >= 2 THEN S(parts[2]) ELSE Undef

isCollection(e) == IsArr(e.data)

relationshipGroups == << <<"relationships">> >>

\* Object.keys(this.data[group] || []).filter(...)
relationshipFieldNames(e, group) ==
  LET g == Get(e.data, group)
  IN SelectSeq(IF Truthy(g) THEN ObjectKeys(g) ELSE <<>>,
               LAMBDA k : \E i \in 1..Len(e.config.relationshipTests) :
                             relationshipTest(e.config.relationshipTests[i], k))

makePath(keys, path) == [i \in 1..Len(keys) |-> <<keys[i], Append(path, keys[i])>>]

\* new Map(entries): a repeated key keeps its first place and its last value
RECURSIVE NewMap(_)
NewMap(entries) ==
  IF entries = <<>> THEN <<>>
  ELSE LET n == Len(entries)
           m == NewMap(SubSeq(entries, 1, n - 1))
           hits == {i \in 1..Len(m) : m[i][1] = entries[n][1]}
       IN IF hits = {} THEN Append(m, entries[n])
          ELSE [m EXCEPT ![CHOOSE i \in hits : TRUE] = entries[n]]

RECURSIVE groupEntries(_, _)
groupEntries(e, groups) ==
  IF groups = <<>> THEN <<>>
  ELSE makePath(relationshipFieldNames(e, Head(groups)), <<<<"data">>, Head(groups)>>)
       \o groupEntries(e, Tail(groups))

\* the getter without the size test of line 166
fieldMapBuilds_always(e) == ~isCollection(e)

\* whether the fieldMap getter builds a Map on this access
fieldMapBuilds(e) == ~isCollection(e) /\ Len(e.fieldMap) = 0

\* get fieldMap: the instance after the access
fieldMapGetter(e) ==
  IF fieldMapBuilds(e)
  THEN [e EXCEPT !.fieldMap =
          NewMap(makePath(ObjectKeys(e.attrs), <<<<"data">>, <<"attributes">>>>)
                 \o groupEntries(e, relationshipGroups))]
  ELSE e

MapHas(m, k) == \E i \in 1..Len(m) : m[i][1] = k
MapGet(m, k) == m[CHOOSE i \in 1..Len(m) : m[i][1] = k][2]

\* path.reduce((value, key) => value[key], this.res)
RECURSIVE getPathFrom(_, _)
getPathFrom(value, path) ==
  IF path = <<>> THEN value
  ELSE IF IsThrow(value) THEN value
  ELSE IF IsNullish(value) THEN TypeError
  ELSE getPathFrom(Get(value, Head(path)), Tail(path))

getPath(e, path) == getPathFrom(e.res, path)

FieldNotFound(name, kind) ==
  [t |-> "throw", err |-> "FieldNotFound", field |-> name, entity |-> kind]

\* field(name): what it returns or throws; building the message of the
\* error reads this.entity, which may itself throw
field(e, name) ==
  LET fm == fieldMapGetter(e).fieldMap
  IN IF ~MapHas(fm, name)
     THEN IF IsThrow(entityGetter(e)) THEN entityGetter(e)
          ELSE FieldNotFound(name, entityGetter(e).s)
     ELSE getPath(e, MapGet(fm, name))

(***************************************************************************)
(* Payloads                                                                *)
(***************************************************************************)
K(a) == <<a>>
Str(a) == S(<<a>>)
Url == Str("https://cms/jsonapi")
TypeOf(kind, bundle) == S(<<kind, "--", bundle>>)
Ref(kind, bundle, u) == O(<< <<K("type"), TypeOf(kind, bundle)>>, <<K("id"), Str(u)>> >>)
ToOne(ref) == O(<< <<K("data"), ref>> >>)
Linked(ref) ==
  O(<< <<K("data"), ref>>,
       <<K("links"), O(<< <<K("self"), Url>>, <<K("related"), Url>> >>)>> >>)
Resource(kind, bundle, u, attrs, rels) ==
  O(<< <<K("type"), TypeOf(kind, bundle)>>,
       <<K("id"), Str(u)>>,
       <<K("links"), O(<< <<K("self"), Url>> >>)>>,
       <<K("attributes"), O(attrs)>>,
       <<K("relationships"), O(rels)>> >>)
Document(data) ==
  O(<< <<K("jsonapi"), O(<< <<K("version"), Str("1.0")>> >>)>>,
       <<K("data"), data>>,
       <<K("links"), O(<< <<K("self"), Url>> >>)>> >>)

Tag(u) ==
  Document(Resource("taxonomy_term", "tags", u,
                    << <<<<"field_", "name">>, Str(u)>> >>, <<>>))

\* a reusable paragraph: library wrapper L -> library item P -> paragraph Q
LibraryWrapper(u, item) ==
  Document(Resource("paragraph", "from_library", u, <<>>,
    << <<<<"field_", "reusable_paragraph">>,
         Linked(Ref("paragraphs_library_item", "item", item))>> >>))
LibraryItem(u, kind, bundle, target) ==
  Document(Resource("paragraphs_library_item", "item", u,
    << <<K("label"), Str("shared")>> >>,
    << <<K("paragraphs"), Linked(Ref(kind, bundle, target))>> >>))
TextParagraph(u) ==
  Document(Resource("paragraph", "text", u,
                    << <<<<"field_", "body">>, Str("body")>> >>, <<>>))
Page(u, targets) ==
  Document(Resource("node", "page", u, <<>>,
    [i \in 1..Len(targets) |->
       <<<<"field_", targets[i]>>, Linked(Ref("node", "page", targets[i]))>>]))

Article ==
  Document(Resource("node", "article", "R",
    << <<<<"drupal_internal_", "_", "n", "id">>, N(42)>>,
       <<<<"field_", "title">>, Str("Hello")>>,
       <<K("langcode"), Str("en")>> >>,
    << <<<<"field_", "tags">>,
         O(<< <<K("data"), A(<<Ref("taxonomy_term", "tags", "X"),
                               Ref("taxonomy_term", "tags", "Y")>>)>>,
              <<K("links"), O(<< <<K("self"), Url>> >>)>> >>)>>,
       <<K("paragraphs"), Linked(Ref("paragraph", "from_library", "L"))>>,
       <<K("uid"), Linked(Ref("user", "user", "U"))>> >>))

ArticleBackend ==
  (<<"X">> :> Tag("X")) @@ (<<"Y">> :> Tag("Y"))
  @@ (<<"L">> :> LibraryWrapper("L", "P"))
  @@ (<<"P">> :> LibraryItem("P", "paragraph", "text", "Q"))
  @@ (<<"Q">> :> TextParagraph("Q"))

Identity == [DefaultOptions EXCEPT !.cleanEntity = "identity"]
OnlyParagraphs == [DefaultOptions EXCEPT !.relationshipTests = <<"paragraphs">>]

Without(doc, member) ==
  Assign(doc, K("data"), Delete(Get(doc, K("data")), K(member)))

Collection == Document(A(<<Get(Tag("X"), K("data")), Get(Tag("Y"), K("data"))>>))

Empty == Document(Resource("node", "empty", "R", <<>>, <<>>))

\* a resource with no document around it
Bare == Get(Page("R", <<"A">>), K("data"))

\* two branches of one traversal reach X: R -> A -> X, R -> B -> X, X -> R,
\* beside a leaf: R -> C
RaceBackend ==
  (<<"A">> :> Page("A", <<"X">>)) @@ (<<"B">> :> Page("B", <<"X">>))
  @@ (<<"X">> :> Page("X", <<"R">>)) @@ (<<"C">> :> Page("C", <<>>))
  @@ (<<"R">> :> Page("R", <<"A", "B", "C">>))

\* links that are present and falsy, links without self, links in attributes
FalsyLinks ==
  O(<< <<K("data"),
         O(<< <<K("type"), TypeOf("node", "page")>>,
              <<K("id"), Str("R")>>,
              <<K("links"), Null>>,
              <<K("attributes"),
                O(<< <<K("path"),
                       O(<< <<K("alias"), Str("/a")>>,
                            <<K("links"), O(<< <<K("self"), Url>> >>)>> >>)>>,
                     <<<<"field_", "empty">>, Null>> >>)>>,
              <<K("relationships"),
                O(<< <<<<"field_", "a">>,
                       O(<< <<K("data"), Null>>,
                            <<K("links"), O(<< <<K("self"), Null>>,
                                               <<K("related"), Url>> >>)>> >>)>>,
                     <<<<"field_", "b">>,
                       O(<< <<K("data"), Ref("node", "page", "A")>>,
                            <<K("links"), O(<< <<K("related"), Url>> >>)>> >>)>> >>)>> >>)>> >>)

\* references nested in objects and arrays, repeated, under names the
\* relationship tests reject, with a one-letter kind, and a name that is
\* both an attribute and a relationship
Nested ==
  Document(Resource("node", "landing", "R",
    << <<<<"field_", "deep">>, Str("attribute")>>,
       <<K("title"), Str("Landing")>> >>,
    << <<<<"field_", "deep">>,
         O(<< <<K("data"),
                A(<< Ref("taxonomy_term", "tags", "X"),
                     O(<< <<K("meta"),
                            O(<< <<K("inner"), Ref("taxonomy_term", "tags", "Y")>> >>)>> >>),
                     Ref("taxonomy_term", "tags", "X"),
                     A(<<Ref("taxonomy_term", "tags", "Y")>>),
                     O(<< <<K("type"), TypeOf("taxonomy_term", "tags")>>,
                          <<K("id"), Str("X")>>,
                          <<K("links"), O(<< <<K("self"), Url>> >>)>>,
                          <<K("meta"), ToOne(Ref("node", "page", "A"))>> >>) >>)>> >>)>>,
       <<<<"field_", "short">>, ToOne(Ref("n", "x", "Z"))>>,
       <<K("paragraphs"), ToOne(Ref("taxonomy_term", "tags", "X"))>>,
       <<K("title"), ToOne(Ref("node", "page", "B"))>> >>))

TwoIds ==
  Document(Resource("node", "article", "R",
    << <<<<"drupal_internal_", "_", "id">>, N(0)>>,
       <<<<"drupal_internal_", "_", "n", "id">>, N(7)>>,
       <<<<"drupal_internal_", "n", "id">>, N(9)>> >>,
    <<>>))

\* a library wrapper whose item points back at the wrapper, one whose
\* wrapper lacks the field, and a reference nobody can fetch
Libraries ==
  Document(Resource("node", "page", "R", <<>>,
    << <<K("paragraphs"), ToOne(Ref("paragraph", "from_library", "L"))>>,
       <<<<"field_", "loop">>, ToOne(Ref("paragraph", "from_library", "M"))>>,
       <<<<"field_", "bare">>, ToOne(Ref("paragraph", "from_library", "W"))>>,
       <<<<"field_", "gone">>, ToOne(Ref("paragraph", "text", "Z"))>> >>))
LibrariesBackend ==
  ArticleBackend
  @@ (<<"M">> :> LibraryWrapper("M", "I"))
  @@ (<<"I">> :> LibraryItem("I", "paragraph", "from_library", "M"))
  @@ (<<"W">> :> Document(Resource("paragraph", "from_library", "W", <<>>, <<>>)))

NoBackend == [u \in {} |-> Undef]
FieldTitle == <<"field_", "title">>
FieldTags == <<"field_", "tags">>
Nonexistent == <<"nonexistent">>

World(d, o, b, ns, tr) ==
  [apiData |-> d, options |-> o, backend |-> b, asked |-> ns, traversal |-> tr]

Worlds ==
  << World(Article, DefaultOptions, ArticleBackend,
          {FieldTitle, FieldTags, K("paragraphs"), Nonexistent}, FALSE),
    World(Article, Identity, ArticleBackend, {K("uid"), K("langcode")}, FALSE),
    World(Article, OnlyParagraphs, ArticleBackend, {FieldTags, K("paragraphs")}, TRUE),
    World(Without(Article, "attributes"), DefaultOptions, ArticleBackend, {FieldTags}, FALSE),
    World(Without(Article, "relationships"), DefaultOptions, ArticleBackend, {FieldTitle}, FALSE),
    World(Without(Article, "relationships"), Identity, ArticleBackend, {FieldTitle, FieldTags}, FALSE),
    World(Collection, DefaultOptions, ArticleBackend, {Nonexistent}, FALSE),
    World(Collection, Identity, ArticleBackend, {Nonexistent, <<"field_", "name">>}, TRUE),
    World(Empty, DefaultOptions, NoBackend, {Nonexistent}, TRUE),
    World(Bare, Identity, RaceBackend, {<<"field_", "A">>, Nonexistent}, TRUE),
    World(Page("R", <<"A", "B", "C">>), DefaultOptions, RaceBackend, {<<"field_", "A">>}, TRUE),
    World(FalsyLinks, DefaultOptions, RaceBackend,
          {<<"field_", "a">>, <<"field_", "b">>, <<"field_", "empty">>, K("path")}, TRUE),
    World(Nested, DefaultOptions, ArticleBackend,
          {<<"field_", "deep">>, <<"field_", "short">>, K("title")}, TRUE),
    World(TwoIds, Identity, NoBackend, {<<"drupal_internal_", "_", "id">>}, FALSE),
    World(TwoIds, DefaultOptions, NoBackend, {<<"drupal_internal_", "n", "id">>}, FALSE),
    World(Libraries, DefaultOptions, LibrariesBackend,
          {K("paragraphs"), <<"field_", "loop">>, <<"field_", "bare">>, <<"field_", "gone">>}, FALSE) >>

backend == Worlds[world].backend   \* api: the payloads behind the references
\* the worlds the traversal is explored in
TraversalWorlds == {w \in 1..Len(Worlds) : Worlds[w].traversal}

apiData == Worlds[world].apiData   \* constructor argument: the raw payload
options == Worlds[world].options   \* constructor argument: the options
asked == Worlds[world].asked       \* the field names the caller asks for


(***************************************************************************)
(* The api collaborator, as far as the resolver needs it                   *)
(***************************************************************************)
\* the Entity instance the api holds for a uuid
EntityRef(u) == [t |-> "entity", uuid |-> u]
IsEntity(v) == v.t = "entity"

\* the state of the instance behind an EntityRef
Hydrated(u) == entities[u]

\* whether the api can produce an entity for the uuid
Fetchable(u) == u \in DOMAIN entities /\ IsInst(entities[u])

\* api.getRelationship(reference): the entity of the reference, if any
getRelationship(value) ==
  LET id == Get(value, <<"id">>)
  IN IF id.t = "str" /\ Fetchable(id.s) THEN EntityRef(id.s) ELSE Undef

(***************************************************************************)
(* The value resolver                                                      *)
(***************************************************************************)
\* depth of JavaScript calls after which the engine throws RangeError
MaxStack == 3

\* Lines 137-147 of getFieldValue: the value before the relationship test
resolveStructure(structure, index) ==
  LET d == Get(structure, <<"data">>)
      value == IF IsObjectLike(structure)
               THEN IF IsArr(d)
                    THEN IF index + 1 <= Len(d.a) THEN d.a[index + 1] ELSE Undef
                    ELSE IF Truthy(d) THEN d ELSE structure
               ELSE structure
  IN IF IsArr(value) /\ index + 1 <= Len(value.a) /\ Truthy(value.a[index + 1])
     THEN value.a[index + 1]
     ELSE value

isFromLibrary(value) ==
  LET parts == SplitType(Get(value, <<"type">>).s)
  IN parts[1] = <<"paragraph">> /\ parts[2] = <<"from_library">>

RECURSIVE getFieldValue(_, _, _)
RECURSIVE valueOf(_, _, _)

\* r.value(name), r being what the previous call returned: a throw goes on
\* up, and anything but an Entity has no value method
valueOn(r, name, fuel) ==
  IF IsThrow(r) THEN r
  ELSE IF ~IsEntity(r) THEN TypeError
  ELSE valueOf(Hydrated(r.uuid), name, fuel)

\* getFieldValue without the from_library case of lines 150-155
getFieldValue_direct(structure, index, fuel) ==
  LET value == resolveStructure(structure, index)
  IN IF isRelationship(value) THEN getRelationship(value) ELSE value

\* getFieldValue(structure, index) with `fuel` calls left on the stack
getFieldValue(structure, index, fuel) ==
  LET value == resolveStructure(structure, index)
  IN IF isRelationship(value)
     THEN IF isFromLibrary(value)
          THEN valueOn(valueOn(getRelationship(value),
                               <<"field_", "reusable_paragraph">>, fuel - 1),
                       <<"paragraphs">>, fuel - 1)
          ELSE getRelationship(value)
     ELSE value

\* value(name).  config.valueProcessors is {} in every configuration of the
\* model, and no field value of the model names a property of Object.prototype,
\* so the processor test of line 108 is false.
valueOf(e, name, fuel) ==
  IF fuel <= 0 THEN RangeError
  ELSE LET f == field(e, name)
       IN IF IsThrow(f) THEN f ELSE getFieldValue(f, 0, fuel)

value(e, name) == valueOf(e, name, MaxStack)

\* xs.map(f) when f may throw: the first throw, or the array of the results
MapResult(rs) ==
  IF \E i \in 1..Len(rs) : IsThrow(rs[i])
  THEN rs[CHOOSE i \in 1..Len(rs) :
            IsThrow(rs[i]) /\ \A j \in 1..(i - 1) : ~IsThrow(rs[j])]
  ELSE A(rs)

\* fields.map((field, index) => this.getFieldValue(field))
mapGetFieldValue(fields) ==
  MapResult([i \in 1..Len(fields) |-> getFieldValue(fields[i], 0, MaxStack)])

\* allValues(name)
allValues(e, name) ==
  LET f == field(e, name)
  IN IF IsThrow(f) THEN f
     ELSE IF IsNullish(f) THEN TypeError
     ELSE IF ~IsArr(f) /\ IsArr(Get(f, <<"data">>))
     THEN mapGetFieldValue(Get(f, <<"data">>).a)
     ELSE IF IsArr(f) THEN mapGetFieldValue(f.a)
     ELSE f

\* toString(): the parts of the template, in the order it reads them
toString(e) ==
  IF IsThrow(entityGetter(e)) THEN entityGetter(e)
  ELSE IF IsThrow(bundleGetter(e)) THEN bundleGetter(e)
  ELSE [t |-> "string",
        entity |-> entityGetter(e),
        bundle |-> bundleGetter(e),
        fields |-> [i \in 1..Len(fieldMapGetter(e).fieldMap) |->
                      fieldMapGetter(e).fieldMap[i][1]]]

\* toObject()
toObject(e) == e.res

(***************************************************************************)
(* The relationship extractor and the traversal coordinator                *)
(***************************************************************************)
dataToLookup(data) ==
  LET parts == SplitType(Get(data, <<"type">>).s)
  IN [entity |-> parts[1],
      bundle |-> IF Len(parts) >= 2 THEN parts[2] ELSE <<>>,
      uuid |-> Get(data, <<"id">>)]

\* api.endpoint(lookup): the canonical key of a lookup
endpoint(l) == <<l.entity, l.bundle, l.uuid>>

\* api.hasBeenTraversed(lookup), the visited set of the api being `visited`
hasBeenTraversed(visited, l) == endpoint(l) \in visited

RECURSIVE FlattenSeq(_)
FlattenSeq(ss) == IF ss = <<>> THEN <<>> ELSE Head(ss) \o FlattenSeq(Tail(ss))

\* parseRelationshipLookups(items): the object { endpoint: lookup }, as its
\* entries in key order.  Object.assign onto {} is NewMap of the entries.
RECURSIVE parseRelationshipLookups(_)
parseRelationshipLookups(items) ==
  IF isRelationship(items)
  THEN << <<endpoint(dataToLookup(items)), dataToLookup(items)>> >>
  ELSE IF IsObj(items) \/ IsArr(items)
  THEN LET vs == ObjectValues(items)
       IN NewMap(FlattenSeq([i \in 1..Len(vs) |-> parseRelationshipLookups(vs[i])]))
  ELSE <<>>

\* loadRelationshipGroup without the filter of line 215
loadRelationshipGroup_unfiltered(e, group, depth, visited) ==
  IF ~isCollection(e) /\ Truthy(Get(e.data, group))
  THEN LET names == relationshipFieldNames(e, group)
           m == parseRelationshipLookups(
                  A([i \in 1..Len(names) |-> Get(Get(e.data, group), names[i])]))
       IN [i \in 1..Len(m) |-> [lookup |-> m[i][2], depth |-> depth + 1]]
  ELSE <<>>

\* loadRelationshipGroup(group, depth): the getEntity calls it makes, in order
loadRelationshipGroup(e, group, depth, visited) ==
  IF ~isCollection(e) /\ Truthy(Get(e.data, group))
  THEN LET names == relationshipFieldNames(e, group)
           m == parseRelationshipLookups(
                  A([i \in 1..Len(names) |-> Get(Get(e.data, group), names[i])]))
           lookups == [i \in 1..Len(m) |-> m[i][2]]
           fresh == SelectSeq(lookups, LAMBDA l : ~hasBeenTraversed(visited, l))
       IN [i \in 1..Len(fresh) |-> [lookup |-> fresh[i], depth |-> depth + 1]]
  ELSE <<>>

\* a join that resolves with the first fulfilment
PromiseAll_any(states) ==
  IF \E i \in 1..Len(states) : states[i] = "rejected" THEN "rejected"
  ELSE IF states = <<>> \/ \E i \in 1..Len(states) : states[i] = "fulfilled"
  THEN "resolved"
  ELSE "pending"

\* Promise.all over the promises of the requests: rejected with the first
\* rejection, resolved when every one is fulfilled
PromiseAll(states) ==
  IF \E i \in 1..Len(states) : states[i] = "rejected" THEN "rejected"
  ELSE IF \A i \in 1..Len(states) : states[i] = "fulfilled" THEN "resolved"
  ELSE "pending"

\* loadRelationships(depth): the getEntity calls of every group, in order
loadRelationships(e, depth, visited) ==
  FlattenSeq([g \in 1..Len(relationshipGroups) |->
                loadRelationshipGroup(e, relationshipGroups[g], depth, visited)])

(***************************************************************************)
(* The state machine                                                       *)
(***************************************************************************)
MaxBuilds == 2     \* Map constructions counted
MaxCalls == 1      \* loadRelationships calls the caller makes on the entity
MaxDepth == 2      \* the depth at which the api stops recursing
MaxRequests == 6   \* getEntity calls recorded

\* the depths the caller passes: the top of the tree, or the last level the
\* api still recurses from
CallerDepths == {0, MaxDepth - 1}

Unbuilt == [t |-> "unbuilt"]
NoCall == [op |-> "none", name |-> <<>>, result |-> Undef]
Returned(op, name, result) == [op |-> op, name |-> name, result |-> result]
Root == <<"root">>

Init ==
  /\ world \in 1..Len(Worlds)
  /\ entities = [u \in DOMAIN backend |-> constructor(backend[u], DefaultOptions)]
  /\ claimsOnCall \in BOOLEAN
  /\ ent = Unbuilt
  /\ copy = Unbuilt
  /\ builds = 0
  /\ last = NoCall
  /\ firstField = NoCall
  /\ traversed = {}
  /\ requests = <<>>
  /\ calls = <<>>

\* new DrupalJsonApiEntity(api, apiData, options)
Construct ==
  /\ ent = Unbuilt
  /\ ent' = constructor(apiData, options)
  /\ UNCHANGED <<world, entities, claimsOnCall, copy, builds, last, firstField, traversed, requests, calls>>

\* entity.id
ReadId ==
  /\ IsInst(ent)
  /\ ent' = [ent EXCEPT !.id = idGetter(ent)]
  /\ last' = Returned("id", <<>>, idGetter(ent))
  /\ UNCHANGED <<world, entities, claimsOnCall, copy, builds, firstField, traversed, requests, calls>>

\* what an access to the fieldMap getter does to the instance and the count
AccessFieldMap ==
  /\ fieldMapBuilds(ent) => builds < MaxBuilds
  /\ ent' = fieldMapGetter(ent)
  /\ builds' = IF fieldMapBuilds(ent) THEN builds + 1 ELSE builds

\* entity.field(name)
Field(name) ==
  /\ IsInst(ent)
  /\ AccessFieldMap
  /\ last' = Returned("field", name, field(ent, name))
  /\ firstField' = IF firstField.op = "none" THEN last' ELSE firstField
  /\ UNCHANGED <<world, entities, claimsOnCall, copy, traversed, requests, calls>>

\* entity.value(name)
Value(name) ==
  /\ IsInst(ent)
  /\ AccessFieldMap
  /\ last' = Returned("value", name, value(ent, name))
  /\ UNCHANGED <<world, entities, claimsOnCall, copy, firstField, traversed, requests, calls>>

\* entity.allValues(name)
AllValues(name) ==
  /\ IsInst(ent)
  /\ AccessFieldMap
  /\ last' = Returned("allValues", name, allValues(ent, name))
  /\ UNCHANGED <<world, entities, claimsOnCall, copy, firstField, traversed, requests, calls>>

\* entity.toString(): the getter is reached only if entity and bundle read
ToStringCall ==
  /\ IsInst(ent)
  /\ IF toString(ent).t = "string"
     THEN AccessFieldMap
     ELSE UNCHANGED <<ent, builds>>
  /\ last' = Returned("toString", <<>>, toString(ent))
  /\ UNCHANGED <<world, entities, claimsOnCall, copy, firstField, traversed, requests, calls>>

\* new DrupalJsonApiEntity(api, entity.toObject(), options)
Reconstitute ==
  /\ IsInst(ent)
  /\ copy = Unbuilt
  /\ copy' = constructor(toObject(ent), options)
  /\ UNCHANGED <<world, entities, claimsOnCall, ent, builds, last, firstField, traversed, requests, calls>>

\* api.getEntity(lookup, depth), for each request of a loadRelationships
\* call: the request is recorded, and claimed if the api claims on call
Issue(reqs, by) ==
  [i \in 1..Len(reqs) |->
     [lookup |-> reqs[i].lookup, depth |-> reqs[i].depth, by |-> by,
      state |-> "pending"]]

Claimed(reqs) == {endpoint(reqs[i].lookup) : i \in 1..Len(reqs)}

CallStates(rs, cs) ==
  [c \in 1..Len(cs) |->
     [cs[c] EXCEPT !.state =
        PromiseAll([j \in 1..Len(cs[c].reqs) |-> rs[cs[c].reqs[j]].state])]]

NewCall(target, depth, seen, n, first) ==
  [target |-> target, depth |-> depth, seen |-> seen, state |-> "pending",
   reqs |-> [j \in 1..n |-> first + j]]

\* entity.loadRelationships(depth), called by the user of the entity
LoadRelationships(depth) ==
  /\ IsInst(ent)
  /\ Cardinality({c \in 1..Len(calls) : calls[c].target = Root}) < MaxCalls
  /\ LET reqs == loadRelationships(ent, depth, traversed)
     IN /\ Len(requests) + Len(reqs) <= MaxRequests
        /\ requests' = requests \o Issue(reqs, Len(calls) + 1)
        /\ calls' = CallStates(requests',
                      Append(calls, NewCall(Root, depth, traversed, Len(reqs), Len(requests))))
        /\ traversed' = IF claimsOnCall THEN traversed \cup Claimed(reqs) ELSE traversed
  /\ UNCHANGED <<world, entities, claimsOnCall, ent, copy, builds, last, firstField>>

\* the fetch of request i fails: its promise rejects
Reject(i) ==
  /\ requests[i].state = "pending"
  /\ requests' = [requests EXCEPT ![i].state = "rejected"]
  /\ calls' = CallStates(requests', calls)
  /\ UNCHANGED <<world, entities, claimsOnCall, ent, copy, builds, last, firstField, traversed>>

\* the fetch of request i succeeds: the api builds the entity, records the
\* visit, fulfils the promise and, below its depth limit, has the new entity
\* load its own relationships at the depth it was fetched at
Fulfil(i) ==
  /\ requests[i].state = "pending"
  /\ requests[i].lookup.uuid.t = "str"
  /\ Fetchable(requests[i].lookup.uuid.s)
  /\ LET r == requests[i]
         u == r.lookup.uuid.s
         visited == traversed \cup {endpoint(r.lookup)}
         reqs == IF r.depth < MaxDepth
                 THEN loadRelationships(Hydrated(u), r.depth, visited)
                 ELSE <<>>
         settled == [requests EXCEPT ![i].state = "fulfilled"]
     IN /\ Len(requests) + Len(reqs) <= MaxRequests
        /\ requests' = settled \o Issue(reqs, Len(calls) + 1)
        /\ calls' = CallStates(requests',
                      IF r.depth < MaxDepth
                      THEN Append(calls, NewCall(u, r.depth, visited, Len(reqs),
                                                 Len(requests)))
                      ELSE calls)
        /\ traversed' = IF claimsOnCall THEN visited \cup Claimed(reqs) ELSE visited
  /\ UNCHANGED <<world, entities, claimsOnCall, ent, copy, builds, last, firstField>>

\* the calls on the entity that read and resolve
NextResolver ==
  \/ Construct
  \/ ReadId
  \/ \E name \in asked : Field(name)
  \/ \E name \in asked : Value(name)
  \/ \E name \in asked : AllValues(name)
  \/ ToStringCall
  \/ Reconstitute
  \/ \E depth \in CallerDepths : LoadRelationships(depth)

\* the traversal: loadRelationships and the fetches of the api
NextTraversal ==
  \/ Construct
  \/ \E depth \in CallerDepths : LoadRelationships(depth)
  \/ \E i \in 1..Len(requests) : Fulfil(i)
  \/ \E i \in 1..Len(requests) : Reject(i)

Next == NextResolver \/ NextTraversal

Spec == Init /\ [][Next]_vars

(***************************************************************************)
(* C7.  The transformer.                                                   *)
(***************************************************************************)
rawData == Get(apiData, K("data"))
FieldSets == {K("attributes"), K("relationships")}

\* the allow-list of section 4.1: field_*, drupal_internal_[a-z]?id, or one
\* of label, title, status, path, paragraphs
AllowListed(k) == ReField(k) \/ ReInternalId1(k) \/ ReNamed(k)

KeptKeys(fieldSet) == SelectSeq(ObjectKeys(Get(rawData, fieldSet)), AllowListed)

\* what holds of the cleaned resource whatever the links are
CleanedEnvelope(res) ==
  /\ ~HasKey(res, K("jsonapi"))
  /\ ~HasKey(res, K("links"))
  /\ \A fs \in FieldSets : ObjectKeys(Get(Get(res, K("data")), fs)) = KeptKeys(fs)

\* the links of the resource and of each kept field are gone, whenever
\* HadLinks(owner) says the raw owner had them
LinksRemoved(res, HadLinks(_)) ==
  /\ HadLinks(rawData) /\ HasKey(rawData, K("links"))
       => ~HasKey(Get(res, K("data")), K("links"))
  /\ \A fs \in FieldSets : \A i \in 1..Len(KeptKeys(fs)) :
       LET raw == Get(Get(rawData, fs), KeptKeys(fs)[i])
           out == Get(Get(Get(res, K("data")), fs), KeptKeys(fs)[i])
       IN IsObj(raw) /\ HadLinks(raw) => ~HasKey(out, K("links"))

ResourceLinksTruthy(owner) ==
  IF owner = rawData THEN Truthy(Get(owner, K("links")))
  ELSE Truthy(Get(owner, K("links"))) /\ Truthy(Get(Get(owner, K("links")), K("self")))

ResourceLinksPresent(owner) ==
  IF owner = rawData THEN TRUE
  ELSE IsObj(Get(owner, K("links"))) /\ HasKey(Get(owner, K("links")), K("self"))

Transformed == IsInst(ent) /\ options.cleanEntity = "transform"

\* C7 (as amended): transforming the output of transform again changes
\* nothing, a re-constituted entity holds the same resource, jsonapi and the
\* top-level links are gone, attributes and relationships keep exactly the
\* allow-listed keys, and links are gone from the resource when they were
\* truthy and from a kept field when its links.self was truthy.
C7_TransformIdempotent ==
  Transformed =>
    /\ transform(ent.res) = ent.res
    /\ copy # Unbuilt => IsInst(copy) /\ copy.res = ent.res
    /\ CleanedEnvelope(ent.res)
    /\ LinksRemoved(ent.res, ResourceLinksTruthy)

\* C7 (as claimed): links are gone from the resource, and from every kept
\* field whose links.self was present.
C7_LinksAbsentWherePresent ==
  Transformed => LinksRemoved(ent.res, ResourceLinksPresent)

\* a default-configured entity, re-constituted, whose payload had jsonapi,
\* links and a relationship carrying links.self
C7_Witness ==
  /\ Transformed
  /\ IsInst(copy)
  /\ HasKey(apiData, K("jsonapi"))
  /\ \E i \in 1..Len(KeptKeys(K("relationships"))) :
       ResourceLinksTruthy(Get(Get(rawData, K("relationships")),
                               KeptKeys(K("relationships"))[i]))
  /\ Len(KeptKeys(K("attributes"))) < Len(ObjectKeys(Get(rawData, K("attributes"))))


(***************************************************************************)
(* C8, C9.  Construction with the default configuration.                   *)
(***************************************************************************)
DefaultConfigured == options = DefaultOptions
Constructed == ent # Unbuilt
NoRequest == requests = <<>>

\* C8: a resource without attributes, or without relationships, still
\* yields an entity under the default configuration; the absent member adds
\* nothing to the field map and loadRelationships requests nothing for it.
C8_AbsentMembersDefault ==
  /\ DefaultConfigured
  /\ Constructed
  /\ IsObj(rawData)
  /\ \E fs \in FieldSets : ~HasKey(rawData, fs)
  => /\ IsInst(ent)
     /\ ~HasKey(rawData, K("attributes")) =>
          \A i \in 1..Len(ent.fieldMap) : ent.fieldMap[i][2][2] # K("attributes")
     /\ ~HasKey(rawData, K("relationships")) =>
          /\ \A i \in 1..Len(ent.fieldMap) : ent.fieldMap[i][2][2] # K("relationships")
          /\ NoRequest

\* C9: a collection payload yields an entity under the default
\* configuration, which is a collection, whose field map stays empty and
\* for which loadRelationships requests nothing.
C9_CollectionDefault ==
  DefaultConfigured /\ Constructed /\ IsArr(rawData)
  => IsInst(ent) /\ isCollection(ent) /\ ent.fieldMap = <<>> /\ NoRequest

(***************************************************************************)
(* C6.  id                                                                 *)
(***************************************************************************)
RawIdKeys == SelectSeq(ObjectKeys(Get(rawData, K("attributes"))), isId)

\* C6: under the default configuration, id is the value of the first
\* attribute of the raw payload whose key matches drupal_internal__[a-z]?id,
\* and is absent only when the raw payload has no such key.
C6_IdOfRawPayload ==
  DefaultConfigured /\ IsInst(ent) /\ last.op = "id"
  => IF RawIdKeys # <<>>
     THEN last.result = Get(Get(rawData, K("attributes")), RawIdKeys[1])
     ELSE last.result = Null

(***************************************************************************)
(* C5.  field, value and allValues on names of the field map               *)
(***************************************************************************)
Asked == last.op \in {"field", "value", "allValues"}

\* C5: a name absent from the field map makes field, value and allValues
\* fail with FieldNotFound naming the field (and the entity kind), and a
\* name in the map makes field return the raw structure at its path.
C5_FieldNotFound ==
  IsInst(ent) /\ Asked
  => IF ~MapHas(ent.fieldMap, last.name)
     THEN /\ IsThrow(last.result)
          /\ last.result.err = "FieldNotFound"
          /\ last.result.field = last.name
     ELSE last.op = "field"
          => /\ ~IsThrow(last.result)
             /\ last.result = getPathFrom(ent.res, MapGet(ent.fieldMap, last.name))

(***************************************************************************)
(* C4.  getFieldValue on a relationship reference                          *)
(***************************************************************************)
\* the value the last value(name) call resolved, before the relationship test
Resolved == resolveStructure(field(ent, last.name), 0)
ValueOfReference ==
  /\ IsInst(ent)
  /\ last.op = "value"
  /\ ~IsThrow(field(ent, last.name))
  /\ isRelationship(Resolved)

\* r.value(name) for the entity r the api returned
ReadOn(r, name) == valueOn(r, name, MaxStack - 1)

\* C4: value(name) on a paragraph/from_library reference returns the
\* value of paragraphs read on the value of field_reusable_paragraph of the
\* entity the api returns for the reference, and never that entity itself;
\* on any other reference it returns the entity the api returns.
C4_LibraryDoubleHop ==
  ValueOfReference =>
    IF isFromLibrary(Resolved)
    THEN /\ last.result =
              ReadOn(ReadOn(getRelationship(Resolved), <<"field_", "reusable_paragraph">>),
                     <<"paragraphs">>)
         /\ last.result # getRelationship(Resolved)
    ELSE last.result = getRelationship(Resolved)

\* a library reference resolved through both hops to another entity
C4_Witness ==
  /\ ValueOfReference
  /\ isFromLibrary(Resolved)
  /\ IsEntity(getRelationship(Resolved))
  /\ IsEntity(last.result)

(***************************************************************************)
(* C10.  The field map                                                     *)
(***************************************************************************)
SingleResource == IsInst(ent) /\ ~isCollection(ent)
AttributeKeys == {ObjectKeys(ent.attrs)[i] : i \in 1..Len(ObjectKeys(ent.attrs))}
RelationshipNames ==
  {k \in {ObjectKeys(Get(ent.data, K("relationships")))[i] :
            i \in 1..Len(ObjectKeys(Get(ent.data, K("relationships"))))} :
     \E i \in 1..Len(ent.config.relationshipTests) :
        relationshipTest(ent.config.relationshipTests[i], k)}
AttributePath(k) == <<K("data"), K("attributes"), k>>
RelationshipPath(k) == <<K("data"), K("relationships"), k>>
MapEntries == {ent.fieldMap[i] : i \in 1..Len(ent.fieldMap)}
RepeatedField ==
  last.op = "field" /\ firstField.name = last.name => last.result = firstField.result

\* C10 (as claimed): the map is built once, and is the attribute entries
\* together with the relationship entries.
C10_BuiltExactlyOnce ==
  SingleResource =>
    /\ builds <= 1
    /\ builds = 1 =>
         MapEntries = {<<k, AttributePath(k)>> : k \in AttributeKeys}
                      \cup {<<k, RelationshipPath(k)>> : k \in RelationshipNames}
    /\ RepeatedField

\* C10: the map is empty until its first access; from then on it has one
\* entry per attribute key and matching relationship name, a name that is
\* both mapping to its relationship path; a map with entries has been built
\* once and never again, while an empty one is built again by every access;
\* a repeated field(name) returns what the first call returned.
C10_FieldMapMemoized ==
  SingleResource =>
    /\ builds = 0 => ent.fieldMap = <<>>
    /\ builds > 0 =>
         /\ MapEntries =
              {<<k, IF k \in RelationshipNames THEN RelationshipPath(k)
                    ELSE AttributePath(k)>> : k \in AttributeKeys \cup RelationshipNames}
         /\ Cardinality(MapEntries) = Len(ent.fieldMap)
    /\ ent.fieldMap # <<>> => builds = 1
    /\ builds > 1 => AttributeKeys \cup RelationshipNames = {}
    /\ RepeatedField

\* a map with entries, read by field and then by value, built once
C10_Witness ==
  /\ SingleResource
  /\ builds = 1
  /\ Len(ent.fieldMap) > 1
  /\ firstField.op = "field"
  /\ last.op = "value"
  /\ AttributeKeys # {} /\ RelationshipNames # {}

(***************************************************************************)
(* C1, C2, C3.  The traversal                                              *)
(***************************************************************************)
Calls == 1..Len(calls)
Requests == 1..Len(requests)
OneTraversal == Cardinality({c \in Calls : calls[c].target = Root}) <= 1

\* C1: within one traversal no lookup key is requested twice, whatever the
\* order in which the fetches of the branches complete.
C1_NoDuplicateFetch ==
  OneTraversal =>
    \A i, j \in Requests :
      i # j => endpoint(requests[i].lookup) # endpoint(requests[j].lookup)

RequestStates(c) == {requests[calls[c].reqs[j]].state : j \in 1..Len(calls[c].reqs)}

\* C2 (as claimed): a call that has completed has no pending request.
C2_CompletesAfterAllSettled ==
  \A c \in Calls : calls[c].state # "pending" => "pending" \notin RequestStates(c)

\* C2: a call resolves only when every request it issued is fulfilled; it
\* rejects as soon as one of them has failed, the others settled or not;
\* until then it is pending.
C2_JoinFailsFast ==
  \A c \in Calls :
    /\ calls[c].state = "resolved" <=> RequestStates(c) \subseteq {"fulfilled"}
    /\ calls[c].state = "rejected" <=> "rejected" \in RequestStates(c)
    /\ calls[c].state = "pending" =>
         "pending" \in RequestStates(c) /\ "rejected" \notin RequestStates(c)

\* a call made by the api on a fetched entity has resolved, and the call
\* that requested that entity is rejected by one request while another is
\* still pending
C2_Witness ==
  \E c, d \in Calls :
    /\ calls[c].state = "rejected"
    /\ "pending" \in RequestStates(c)
    /\ calls[d].state = "resolved"
    /\ calls[d].reqs # <<>>

\* the instance a call was made on
Callee(c) == IF calls[c].target = Root THEN ent ELSE entities[calls[c].target]

\* the references reachable from a value, descending objects and arrays and
\* stopping at each reference
RECURSIVE Reachable(_)
Reachable(v) ==
  IF isRelationship(v) THEN {dataToLookup(v)}
  ELSE IF IsObj(v) THEN UNION {Reachable(v.kv[i][2]) : i \in 1..Len(v.kv)}
  ELSE IF IsArr(v) THEN UNION {Reachable(v.a[i]) : i \in 1..Len(v.a)}
  ELSE {}

MatchingFields(e) ==
  LET rels == Get(e.data, K("relationships"))
  IN {rels.kv[i][2] : i \in {j \in 1..Len(rels.kv) :
        \E r \in 1..Len(e.config.relationshipTests) :
          relationshipTest(e.config.relationshipTests[r], rels.kv[j][1])}}

ReachableEndpoints(e) ==
  IF IsObj(Get(e.data, K("relationships")))
  THEN {endpoint(l) : l \in UNION {Reachable(f) : f \in MatchingFields(e)}}
  ELSE {}

RequestedEndpoints(c) ==
  {endpoint(requests[calls[c].reqs[j]].lookup) : j \in 1..Len(calls[c].reqs)}

\* C3: a loadRelationships(depth) call on a single-resource entity requests
\* each endpoint reachable from its matching relationship fields and not
\* reported as traversed, once, at depth + 1, and nothing else.
C3_OneRequestPerEndpoint ==
  \A c \in Calls :
    ~isCollection(Callee(c)) =>
      /\ RequestedEndpoints(c) = ReachableEndpoints(Callee(c)) \ calls[c].seen
      /\ Len(calls[c].reqs) = Cardinality(RequestedEndpoints(c))
      /\ \A j \in 1..Len(calls[c].reqs) :
           /\ requests[calls[c].reqs[j]].depth = calls[c].depth + 1
           /\ requests[calls[c].reqs[j]].by = c

\* a call that requested several endpoints, and a call made by the api on
\* a fetched entity that skipped a reference already traversed
C3_Witness ==
  /\ \E c \in Calls : Cardinality(RequestedEndpoints(c)) >= 2
  /\ \E c \in Calls :
       /\ calls[c].target # Root
       /\ ReachableEndpoints(Callee(c)) \cap calls[c].seen # {}

(***************************************************************************)
(* The resolving calls write ent, copy, builds, last and firstField and    *)
(* read nothing the fetches write; the fetches write traversed, requests   *)
(* and calls and read of ent only what the constructor set.  Each half is  *)
(* explored on its own.                                                    *)
(***************************************************************************)
SpecResolver == Init /\ [][NextResolver]_vars
InitTraversal == Init /\ world \in TraversalWorlds
SpecTraversal == InitTraversal /\ [][NextTraversal]_vars
====
